---- MODULE Spec2Model ----
(***************************************************************************)
(* Model of examples/domain_adaptation/object_detection/cycle_gan.py:      *)
(* main() (argument handling, resume, epoch loop, lr schedule, checkpoint, *)
(* translation), train() (one CycleGAN iteration, statement by statement)  *)
(* and VOCImageFolder (parse_data_file, __getitem__).                      *)
(*                                                                         *)
(* Tensors are abstracted by their provenance: a fake image is the record  *)
(* [dom, gen] of its domain and of the version of the generator weights    *)
(* that produced it; network weights are version counters advanced by the  *)
(* optimizer steps; a batch is one image.  Learning rates are kept as exact fractions            *)
(* <<numerator, denominator>> of the initial learning rate.                *)
(***************************************************************************)
EXTENDS Integers, Sequences, FiniteSets, TLC

\* ---------------------------------------------------------------- bounds
MaxEpochs == 1
MaxEpochsDecay == 2
MaxStartEpoch == 1
ItersPerEpoch == 2
PoolSize == 1

VARIABLES
    pc,               \* position of main()/train()
    args,             \* argparse.Namespace (the fields main and train read)
    net,              \* weights version of netG_S2T, netG_T2S, netD_S, netD_T
    reqGrad,          \* requires_grad of the parameters of netD_S, netD_T
    grads,            \* .grad of generator / discriminator parameters
    optimizer_G,      \* [step, lr] of Adam over both generators
    optimizer_D,      \* [step, lr] of Adam over both discriminators
    lr_scheduler_G,   \* last_epoch of LambdaLR(optimizer_G)
    lr_scheduler_D,   \* last_epoch of LambdaLR(optimizer_D)
    fake_S_pool,      \* ImagePool: sequence of stored images
    fake_T_pool,
    nextEpoch,        \* position of range(start_epoch, epochs+epochs_decay)
    epoch,            \* loop variable of main (-1: not bound yet)
    i,                \* loop variable of train
    fakes,            \* fake_S, fake_T, fake_S_, fake_T_ of the iteration
    losses,           \* fake inputs of loss_G, loss_D_S, loss_D_T
    calls,            \* calls made so far by the current train iteration
    log,              \* calls made so far by the current epoch of main
    checkpoint,       \* the file logger.get_checkpoint_path('latest')
    translated,       \* translations written by this run of main
    \* VOCImageFolder
    vpc, file, extension, root, transform, samples, item

trainVars == <<pc, args, net, reqGrad, grads, optimizer_G, optimizer_D,
               lr_scheduler_G, lr_scheduler_D, fake_S_pool, fake_T_pool,
               nextEpoch, epoch, i, fakes, losses, calls, log, checkpoint,
               translated>>
vocVars == <<vpc, file, extension, root, transform, samples, item>>
vars == <<trainVars, vocVars>>

None == "None"
\* no __getitem__ result yet
NoItem == [index |-> 0, img |-> [transform |-> None, loaded |-> <<>>], path |-> <<>>]
NoImage == [dom |-> "none", gen |-> -1]

Max(a, b) == IF a >= b THEN a ELSE b

\* lr_decay_function(epoch) = 1.0 - max(0, epoch - args.epochs) / float(args.epochs_decay)
\* as the fraction <<epochs_decay - max(0, epoch - epochs), epochs_decay>>
lr_decay_function(a, e) ==
    <<a.epochs_decay - Max(0, e - a.epochs), a.epochs_decay>>

\* equality of two fractions
SameLr(x, y) == x[1] * y[2] = y[1] * x[2]

\* dalib.translation.cyclegan.util.set_requires_grad(net, requires_grad)
set_requires_grad(rg, n, flag) == [rg EXCEPT ![n] = flag]

\* dalib.translation.cyclegan.util.ImagePool.query for a batch of one image:
\* the set of possible <<returned image, new buffer>>
ImagePoolQuery(pool, size, img) ==
    IF size = 0 THEN {<<img, pool>>}
    ELSE IF Len(pool) < size THEN {<<img, Append(pool, img)>>}
    ELSE {<<img, pool>>} \cup
         {<<pool[k], [pool EXCEPT ![k] = img]>> : k \in 1..Len(pool)}

ArgSpace ==
    [phase : {"train", "test"},
     resume : BOOLEAN,
     start_epoch : 0..MaxStartEpoch,
     epochs : 1..MaxEpochs,
     epochs_decay : 1..MaxEpochsDecay,
     translated_source : BOOLEAN,
     translated_target : BOOLEAN,
     pool_size : {0}]

\* the command lines enumerated to exercise the image buffers: a training
\* run of two epochs with buffers of PoolSize images
PoolArgSpace ==
    [phase : {"train"},
     resume : BOOLEAN,
     start_epoch : {0},
     epochs : {1},
     epochs_decay : {1},
     translated_source : {FALSE},
     translated_target : {FALSE},
     pool_size : {PoolSize}]

FreshOptimizer == [step |-> 0, lr |-> <<1, 1>>]
NoFakes == [fake_S |-> NoImage, fake_T |-> NoImage,
            fake_S_ |-> NoImage, fake_T_ |-> NoImage]
NoLosses == [G |-> {}, D_S |-> {}, D_T |-> {}]
NoGrads == [G |-> {}, D |-> {}]
FreshNet == [netG_S2T |-> 0, netG_T2S |-> 0, netD_S |-> 0, netD_T |-> 0]

\* the checkpoint file before any torch.save
NoCheckpoint ==
    [exists |-> FALSE, net |-> FreshNet,
     optimizer_G |-> FreshOptimizer, optimizer_D |-> FreshOptimizer,
     lr_scheduler_G |-> [last_epoch |-> 0],
     lr_scheduler_D |-> [last_epoch |-> 0], epoch |-> -1]

vocIdle ==
    /\ vpc = "off" /\ file = <<>> /\ extension = None /\ root = <<>>
    /\ transform = None /\ samples = <<>> /\ item = NoItem

Init ==
    /\ pc = "start"
    /\ args = [phase |-> "train", resume |-> FALSE, start_epoch |-> 0,
               epochs |-> 1, epochs_decay |-> 1,
               translated_source |-> FALSE, translated_target |-> FALSE,
               pool_size |-> 0]
    /\ net = FreshNet
    /\ reqGrad = [netD_S |-> TRUE, netD_T |-> TRUE]
    /\ grads = NoGrads
    /\ optimizer_G = FreshOptimizer
    /\ optimizer_D = FreshOptimizer
    /\ lr_scheduler_G = [last_epoch |-> 0]
    /\ lr_scheduler_D = [last_epoch |-> 0]
    /\ fake_S_pool = <<>>
    /\ fake_T_pool = <<>>
    /\ nextEpoch = 0
    /\ epoch = -1
    /\ i = 0
    /\ fakes = NoFakes
    /\ losses = NoLosses
    /\ calls = <<>>
    /\ log = <<>>
    /\ checkpoint = NoCheckpoint
    /\ translated = {}
    /\ vocIdle

\* main, lines 113-162: a new process parses its arguments and builds the
\* datasets, the four networks, the two image buffers, the optimizers and
\* the LambdaLR schedulers (whose construction sets lr = lr * lambda(0)).
MainStartWith(space) ==
    /\ pc \in {"start", "done"}
    /\ \E a \in space :
         /\ a.resume => checkpoint.exists
         /\ args' = a
         /\ optimizer_G' = [step |-> 0, lr |-> lr_decay_function(a, 0)]
         /\ optimizer_D' = [step |-> 0, lr |-> lr_decay_function(a, 0)]
    /\ net' = FreshNet
    /\ reqGrad' = [netD_S |-> TRUE, netD_T |-> TRUE]
    /\ grads' = NoGrads
    /\ lr_scheduler_G' = [last_epoch |-> 0]
    /\ lr_scheduler_D' = [last_epoch |-> 0]
    /\ fake_S_pool' = <<>>
    /\ fake_T_pool' = <<>>
    /\ nextEpoch' = 0
    /\ epoch' = -1
    /\ i' = 0
    /\ fakes' = NoFakes
    /\ losses' = NoLosses
    /\ calls' = <<>>
    /\ log' = <<>>
    /\ translated' = {}
    /\ pc' = "resume"
    /\ UNCHANGED <<checkpoint, vocVars>>

MainStart == MainStartWith(ArgSpace)

MainStartPool == MainStartWith(PoolArgSpace)

\* main, lines 164-176: optionally resume from a checkpoint
Resume ==
    /\ pc = "resume"
    /\ IF args.resume
       THEN /\ net' = checkpoint.net
            /\ optimizer_G' = checkpoint.optimizer_G
            /\ optimizer_D' = checkpoint.optimizer_D
            /\ lr_scheduler_G' = checkpoint.lr_scheduler_G
            /\ lr_scheduler_D' = checkpoint.lr_scheduler_D
            /\ args' = [args EXCEPT !.start_epoch = checkpoint.epoch + 1]
       ELSE UNCHANGED <<net, optimizer_G, optimizer_D, lr_scheduler_G,
                        lr_scheduler_D, args>>
    /\ pc' = "phase"
    /\ UNCHANGED <<reqGrad, grads, fake_S_pool, fake_T_pool, nextEpoch,
                   epoch, i, fakes, losses, calls, log, checkpoint,
                   translated, vocVars>>

\* PhaseDispatch without the test of args.phase
PhaseDispatch_NoTest ==
    /\ pc = "phase"
    /\ nextEpoch' = args.start_epoch
    /\ pc' = "loop"
    /\ UNCHANGED <<args, net, reqGrad, grads, optimizer_G, optimizer_D,
                   lr_scheduler_G, lr_scheduler_D, fake_S_pool, fake_T_pool,
                   epoch, i, fakes, losses, calls, log, checkpoint,
                   translated, vocVars>>

\* main, lines 178-199: the phase test and the creation of the epoch range
PhaseDispatch ==
    /\ pc = "phase"
    /\ IF args.phase = "train"
       THEN /\ nextEpoch' = args.start_epoch
            /\ pc' = "loop"
       ELSE /\ UNCHANGED nextEpoch
            /\ pc' = "translate_source"
    /\ UNCHANGED <<args, net, reqGrad, grads, optimizer_G, optimizer_D,
                   lr_scheduler_G, lr_scheduler_D, fake_S_pool, fake_T_pool,
                   epoch, i, fakes, losses, calls, log, checkpoint,
                   translated, vocVars>>

\* main, lines 199-206 and train, lines 244-261: for epoch in
\* range(args.start_epoch, args.epochs + args.epochs_decay): enter train()
EpochLoop ==
    /\ pc = "loop"
    /\ IF nextEpoch < args.epochs + args.epochs_decay
       THEN /\ epoch' = nextEpoch
            /\ nextEpoch' = nextEpoch + 1
            /\ i' = 0
            /\ log' = <<"train">>
            /\ pc' = "iter"
       ELSE /\ UNCHANGED <<epoch, nextEpoch, i, log>>
            /\ pc' = "translate_source"
    /\ UNCHANGED <<args, net, reqGrad, grads, optimizer_G, optimizer_D,
                   lr_scheduler_G, lr_scheduler_D, fake_S_pool, fake_T_pool,
                   fakes, losses, calls, checkpoint, translated, vocVars>>

\* train, line 263: for i in range(args.iters_per_epoch)
IterLoop ==
    /\ pc = "iter"
    /\ IF i < ItersPerEpoch
       THEN /\ pc' = "forward"
            /\ calls' = <<>>
       ELSE /\ pc' = "lr_step"
            /\ UNCHANGED calls
    /\ UNCHANGED <<args, net, reqGrad, grads, optimizer_G, optimizer_D,
                   lr_scheduler_G, lr_scheduler_D, fake_S_pool, fake_T_pool,
                   nextEpoch, epoch, i, fakes, losses, log, checkpoint,
                   translated, vocVars>>

\* train, lines 264-277: load a batch, compute fake and reconstructed images
Forward ==
    /\ pc = "forward"
    /\ fakes' = [fake_T |-> [dom |-> "T", gen |-> net.netG_S2T],
                 fake_S |-> [dom |-> "S", gen |-> net.netG_T2S],
                 fake_S_ |-> NoImage, fake_T_ |-> NoImage]
    /\ losses' = NoLosses
    /\ pc' = "freeze"
    /\ UNCHANGED <<args, net, reqGrad, grads, optimizer_G, optimizer_D,
                   lr_scheduler_G, lr_scheduler_D, fake_S_pool, fake_T_pool,
                   nextEpoch, epoch, i, calls, log, checkpoint, translated,
                   vocVars>>

\* FreezeD with the second set_requires_grad call forgotten
FreezeD_OnlyS ==
    /\ pc = "freeze"
    /\ reqGrad' = set_requires_grad(reqGrad, "netD_S", FALSE)
    /\ calls' = calls \o <<"set_requires_grad(netD_S, False)">>
    /\ pc' = "g_zero_grad"
    /\ UNCHANGED <<args, net, grads, optimizer_G, optimizer_D,
                   lr_scheduler_G, lr_scheduler_D, fake_S_pool, fake_T_pool,
                   nextEpoch, epoch, i, fakes, losses, log, checkpoint,
                   translated, vocVars>>

\* train, lines 281-282: discriminators require no gradients
FreezeD ==
    /\ pc = "freeze"
    /\ reqGrad' = set_requires_grad(set_requires_grad(reqGrad, "netD_S", FALSE),
                                    "netD_T", FALSE)
    /\ calls' = calls \o <<"set_requires_grad(netD_S, False)",
                           "set_requires_grad(netD_T, False)">>
    /\ pc' = "g_zero_grad"
    /\ UNCHANGED <<args, net, grads, optimizer_G, optimizer_D,
                   lr_scheduler_G, lr_scheduler_D, fake_S_pool, fake_T_pool,
                   nextEpoch, epoch, i, fakes, losses, log, checkpoint,
                   translated, vocVars>>

\* train, line 284: optimizer_G.zero_grad()
GZeroGrad ==
    /\ pc = "g_zero_grad"
    /\ grads' = [grads EXCEPT !.G = {}]
    /\ calls' = Append(calls, "optimizer_G.zero_grad")
    /\ pc' = "g_loss"
    /\ UNCHANGED <<args, net, reqGrad, optimizer_G, optimizer_D,
                   lr_scheduler_G, lr_scheduler_D, fake_S_pool, fake_T_pool,
                   nextEpoch, epoch, i, fakes, losses, log, checkpoint,
                   translated, vocVars>>

\* train, lines 286-301: GAN, cycle and identity losses of the generators
GLoss ==
    /\ pc = "g_loss"
    /\ losses' = [losses EXCEPT !.G = {fakes.fake_T, fakes.fake_S}]
    /\ pc' = "g_backward"
    /\ UNCHANGED <<args, net, reqGrad, grads, optimizer_G, optimizer_D,
                   lr_scheduler_G, lr_scheduler_D, fake_S_pool, fake_T_pool,
                   nextEpoch, epoch, i, fakes, calls, log, checkpoint,
                   translated, vocVars>>

\* train, line 302: loss_G.backward() accumulates into the generators and
\* into every discriminator that requires gradients
GBackward ==
    /\ pc = "g_backward"
    /\ grads' = [G |-> grads.G \cup {"loss_G"},
                 D |-> IF reqGrad.netD_S \/ reqGrad.netD_T
                       THEN grads.D \cup {"loss_G"} ELSE grads.D]
    /\ calls' = Append(calls, "loss_G.backward")
    /\ pc' = "g_step"
    /\ UNCHANGED <<args, net, reqGrad, optimizer_G, optimizer_D,
                   lr_scheduler_G, lr_scheduler_D, fake_S_pool, fake_T_pool,
                   nextEpoch, epoch, i, fakes, losses, log, checkpoint,
                   translated, vocVars>>

\* train, line 303: optimizer_G.step()
GStep ==
    /\ pc = "g_step"
    /\ net' = [net EXCEPT !.netG_S2T = @ + 1, !.netG_T2S = @ + 1]
    /\ optimizer_G' = [optimizer_G EXCEPT !.step = @ + 1]
    /\ calls' = Append(calls, "optimizer_G.step")
    /\ pc' = "unfreeze"
    /\ UNCHANGED <<args, reqGrad, grads, optimizer_D,
                   lr_scheduler_G, lr_scheduler_D, fake_S_pool, fake_T_pool,
                   nextEpoch, epoch, i, fakes, losses, log, checkpoint,
                   translated, vocVars>>

\* train, lines 306-307
UnfreezeD ==
    /\ pc = "unfreeze"
    /\ reqGrad' = set_requires_grad(set_requires_grad(reqGrad, "netD_S", TRUE),
                                    "netD_T", TRUE)
    /\ calls' = calls \o <<"set_requires_grad(netD_S, True)",
                           "set_requires_grad(netD_T, True)">>
    /\ pc' = "d_zero_grad"
    /\ UNCHANGED <<args, net, grads, optimizer_G, optimizer_D,
                   lr_scheduler_G, lr_scheduler_D, fake_S_pool, fake_T_pool,
                   nextEpoch, epoch, i, fakes, losses, log, checkpoint,
                   translated, vocVars>>

\* train, line 308: optimizer_D.zero_grad()
DZeroGrad ==
    /\ pc = "d_zero_grad"
    /\ grads' = [grads EXCEPT !.D = {}]
    /\ calls' = Append(calls, "optimizer_D.zero_grad")
    /\ pc' = "d_S"
    /\ UNCHANGED <<args, net, reqGrad, optimizer_G, optimizer_D,
                   lr_scheduler_G, lr_scheduler_D, fake_S_pool, fake_T_pool,
                   nextEpoch, epoch, i, fakes, losses, log, checkpoint,
                   translated, vocVars>>

\* train, lines 310-312: GAN loss of D_S on a fake from fake_S_pool
DiscS ==
    /\ pc = "d_S"
    /\ \E r \in ImagePoolQuery(fake_S_pool, args.pool_size, fakes.fake_S) :
         /\ fakes' = [fakes EXCEPT !.fake_S_ = r[1]]
         /\ fake_S_pool' = r[2]
         /\ losses' = [losses EXCEPT !.D_S = {r[1]}]
    /\ grads' = [grads EXCEPT !.D = @ \cup {"loss_D_S"}]
    /\ calls' = calls \o <<"fake_S_pool.query(fake_S)", "loss_D_S.backward">>
    /\ pc' = "d_T"
    /\ UNCHANGED <<args, net, reqGrad, optimizer_G, optimizer_D,
                   lr_scheduler_G, lr_scheduler_D, fake_T_pool,
                   nextEpoch, epoch, i, log, checkpoint, translated, vocVars>>

\* DiscT querying the buffer of the other domain
DiscT_WrongPool ==
    /\ pc = "d_T"
    /\ \E r \in ImagePoolQuery(fake_S_pool, args.pool_size, fakes.fake_T) :
         /\ fakes' = [fakes EXCEPT !.fake_T_ = r[1]]
         /\ fake_S_pool' = r[2]
         /\ losses' = [losses EXCEPT !.D_T = {r[1]}]
    /\ grads' = [grads EXCEPT !.D = @ \cup {"loss_D_T"}]
    /\ calls' = calls \o <<"fake_S_pool.query(fake_T)", "loss_D_T.backward">>
    /\ pc' = "d_step"
    /\ UNCHANGED <<args, net, reqGrad, optimizer_G, optimizer_D,
                   lr_scheduler_G, lr_scheduler_D, fake_T_pool,
                   nextEpoch, epoch, i, log, checkpoint, translated, vocVars>>

\* train, lines 314-316: GAN loss of D_T on a fake from fake_T_pool
DiscT ==
    /\ pc = "d_T"
    /\ \E r \in ImagePoolQuery(fake_T_pool, args.pool_size, fakes.fake_T) :
         /\ fakes' = [fakes EXCEPT !.fake_T_ = r[1]]
         /\ fake_T_pool' = r[2]
         /\ losses' = [losses EXCEPT !.D_T = {r[1]}]
    /\ grads' = [grads EXCEPT !.D = @ \cup {"loss_D_T"}]
    /\ calls' = calls \o <<"fake_T_pool.query(fake_T)", "loss_D_T.backward">>
    /\ pc' = "d_step"
    /\ UNCHANGED <<args, net, reqGrad, optimizer_G, optimizer_D,
                   lr_scheduler_G, lr_scheduler_D, fake_S_pool,
                   nextEpoch, epoch, i, log, checkpoint, translated, vocVars>>

\* train, line 317: optimizer_D.step()
DStep ==
    /\ pc = "d_step"
    /\ net' = [net EXCEPT !.netD_S = @ + 1, !.netD_T = @ + 1]
    /\ optimizer_D' = [optimizer_D EXCEPT !.step = @ + 1]
    /\ calls' = Append(calls, "optimizer_D.step")
    /\ pc' = "meters"
    /\ UNCHANGED <<args, reqGrad, grads, optimizer_G,
                   lr_scheduler_G, lr_scheduler_D, fake_S_pool, fake_T_pool,
                   nextEpoch, epoch, i, fakes, losses, log, checkpoint,
                   translated, vocVars>>

\* train, lines 320-337: update the meters, display, next iteration
Meters ==
    /\ pc = "meters"
    /\ i' = i + 1
    /\ pc' = "iter"
    /\ UNCHANGED <<args, net, reqGrad, grads, optimizer_G, optimizer_D,
                   lr_scheduler_G, lr_scheduler_D, fake_S_pool, fake_T_pool,
                   nextEpoch, epoch, fakes, losses, calls, log, checkpoint,
                   translated, vocVars>>

\* torch.optim.lr_scheduler.LambdaLR.step(): last_epoch += 1 and the
\* optimizer's lr becomes base_lr * lr_lambda(last_epoch)
LambdaLRStep(sched) == [last_epoch |-> sched.last_epoch + 1]

\* main, lines 208-210: update learning rates
LrStep ==
    /\ pc = "lr_step"
    /\ lr_scheduler_G' = LambdaLRStep(lr_scheduler_G)
    /\ lr_scheduler_D' = LambdaLRStep(lr_scheduler_D)
    /\ optimizer_G' = [optimizer_G EXCEPT
                         !.lr = lr_decay_function(args, lr_scheduler_G.last_epoch + 1)]
    /\ optimizer_D' = [optimizer_D EXCEPT
                         !.lr = lr_decay_function(args, lr_scheduler_D.last_epoch + 1)]
    /\ log' = log \o <<"lr_scheduler_G.step", "lr_scheduler_D.step">>
    /\ pc' = "save"
    /\ UNCHANGED <<args, net, reqGrad, grads, fake_S_pool, fake_T_pool,
                   nextEpoch, epoch, i, fakes, losses, calls, checkpoint,
                   translated, vocVars>>

\* SaveCheckpoint storing the epoch to resume at instead of the one done
SaveCheckpoint_NextEpoch ==
    /\ pc = "save"
    /\ checkpoint' = [exists |-> TRUE,
                      net |-> net,
                      optimizer_G |-> optimizer_G,
                      optimizer_D |-> optimizer_D,
                      lr_scheduler_G |-> lr_scheduler_G,
                      lr_scheduler_D |-> lr_scheduler_D,
                      epoch |-> epoch + 1]
    /\ log' = Append(log, "torch.save")
    /\ pc' = "loop"
    /\ UNCHANGED <<args, net, reqGrad, grads, optimizer_G, optimizer_D,
                   lr_scheduler_G, lr_scheduler_D, fake_S_pool, fake_T_pool,
                   nextEpoch, epoch, i, fakes, losses, calls, translated,
                   vocVars>>

\* main, lines 212-226: save checkpoint
SaveCheckpoint ==
    /\ pc = "save"
    /\ checkpoint' = [exists |-> TRUE,
                      net |-> net,
                      optimizer_G |-> optimizer_G,
                      optimizer_D |-> optimizer_D,
                      lr_scheduler_G |-> lr_scheduler_G,
                      lr_scheduler_D |-> lr_scheduler_D,
                      epoch |-> epoch]
    /\ log' = Append(log, "torch.save")
    /\ pc' = "loop"
    /\ UNCHANGED <<args, net, reqGrad, grads, optimizer_G, optimizer_D,
                   lr_scheduler_G, lr_scheduler_D, fake_S_pool, fake_T_pool,
                   nextEpoch, epoch, i, fakes, losses, calls, translated,
                   vocVars>>

\* main, lines 228-231: translate the source datasets with netG_S2T
TranslateSource ==
    /\ pc = "translate_source"
    /\ IF args.translated_source
       THEN translated' = translated \cup
                {[dataset |-> "source", net |-> "netG_S2T", gen |-> net.netG_S2T]}
       ELSE UNCHANGED translated
    /\ pc' = "translate_target"
    /\ UNCHANGED <<args, net, reqGrad, grads, optimizer_G, optimizer_D,
                   lr_scheduler_G, lr_scheduler_D, fake_S_pool, fake_T_pool,
                   nextEpoch, epoch, i, fakes, losses, calls, log, checkpoint,
                   vocVars>>

\* main, lines 233-236: translate the target datasets with netG_T2S
TranslateTarget ==
    /\ pc = "translate_target"
    /\ IF args.translated_target
       THEN translated' = translated \cup
                {[dataset |-> "target", net |-> "netG_T2S", gen |-> net.netG_T2S]}
       ELSE UNCHANGED translated
    /\ pc' = "close"
    /\ UNCHANGED <<args, net, reqGrad, grads, optimizer_G, optimizer_D,
                   lr_scheduler_G, lr_scheduler_D, fake_S_pool, fake_T_pool,
                   nextEpoch, epoch, i, fakes, losses, calls, log, checkpoint,
                   vocVars>>

\* main, line 238: logger.close()
Close ==
    /\ pc = "close"
    /\ pc' = "done"
    /\ UNCHANGED <<args, net, reqGrad, grads, optimizer_G, optimizer_D,
                   lr_scheduler_G, lr_scheduler_D, fake_S_pool, fake_T_pool,
                   nextEpoch, epoch, i, fakes, losses, calls, log, checkpoint,
                   translated, vocVars>>

Next ==
    \/ MainStart
    \/ Resume
    \/ PhaseDispatch
    \/ EpochLoop
    \/ IterLoop
    \/ Forward
    \/ FreezeD
    \/ GZeroGrad
    \/ GLoss
    \/ GBackward
    \/ GStep
    \/ UnfreezeD
    \/ DZeroGrad
    \/ DiscS
    \/ DiscT
    \/ DStep
    \/ Meters
    \/ LrStep
    \/ SaveCheckpoint
    \/ TranslateSource
    \/ TranslateTarget
    \/ Close

Spec == Init /\ [][Next]_vars

\* the same program started with the command lines of PoolArgSpace
NextPool ==
    \/ MainStartPool
    \/ Resume
    \/ PhaseDispatch
    \/ EpochLoop
    \/ IterLoop
    \/ Forward
    \/ FreezeD
    \/ GZeroGrad
    \/ GLoss
    \/ GBackward
    \/ GStep
    \/ UnfreezeD
    \/ DZeroGrad
    \/ DiscS
    \/ DiscT
    \/ DStep
    \/ Meters
    \/ LrStep
    \/ SaveCheckpoint
    \/ TranslateSource
    \/ TranslateTarget
    \/ Close

SpecPool == Init /\ [][NextPool]_vars

\* ------------------------------------------------------- VOCImageFolder
\* Strings are sequences of tokens; "JPEGImages" and ".jpg" are one token.
MaxFileLen == 4
FileChars == {"a", " ", "/", "\n"}
Whitespace == {" ", "\n"}
Roots == {<<>>, <<"r">>, <<"r", "/">>, <<"/", "r">>}
Extensions == {None, <<".jpg">>}
Transforms == {None, "train_transform"}

SeqsUpTo(S, n) == UNION {[1..k -> S] : k \in 0..n}

\* f.readlines(): the lines of the file, each with its terminating "\n"
RECURSIVE readlines(_)
readlines(f) ==
    IF f = <<>> THEN <<>>
    ELSE LET nl == {k \in 1..Len(f) : f[k] = "\n"}
         IN  IF nl = {} THEN <<f>>
             ELSE LET k == CHOOSE x \in nl : \A y \in nl : x <= y
                  IN  <<SubSeq(f, 1, k)>> \o readlines(SubSeq(f, k + 1, Len(f)))

RECURSIVE lstrip(_)
lstrip(l) ==
    IF l # <<>> /\ l[1] \in Whitespace THEN lstrip(Tail(l)) ELSE l

RECURSIVE rstrip(_)
rstrip(l) ==
    IF l # <<>> /\ l[Len(l)] \in Whitespace
    THEN rstrip(SubSeq(l, 1, Len(l) - 1)) ELSE l

\* strip removing the line terminator only
strip_NewlineOnly(l) ==
    IF l # <<>> /\ l[Len(l)] = "\n" THEN SubSeq(l, 1, Len(l) - 1) ELSE l

\* str.strip(), line 83
strip(l) == rstrip(lstrip(l))

\* os.path.isabs
isabs(path) == path # <<>> /\ path[1] = "/"

\* os.path.join(a, b) of posixpath, one component at a time
join2(a, b) ==
    IF isabs(b) THEN b
    ELSE IF a = <<>> \/ a[Len(a)] = "/" THEN a \o b
    ELSE a \o <<"/">> \o b

\* os.path.join(self.root, "JPEGImages", path), line 89
join(rt, path) == join2(join2(rt, <<"JPEGImages">>), path)

\* the body of the loop of parse_data_file, lines 83-90
parse_line(line, ext, rt) ==
    LET l == strip(line)
        path == IF ext = None THEN l ELSE l \o ext
    IN  IF ~isabs(path) THEN join(rt, path) ELSE path

\* VOCImageFolder.parse_data_file, lines 73-91
parse_data_file(f, ext, rt) ==
    LET lines == readlines(f)
    IN  [k \in 1..Len(lines) |-> parse_line(lines[k], ext, rt)]

\* torchvision default_loader: the image stored at a path
default_loader(path) == [transform |-> None, loaded |-> path]

InitVOC ==
    /\ pc = "start"
    /\ args = [phase |-> "train", resume |-> FALSE, start_epoch |-> 0,
               epochs |-> 1, epochs_decay |-> 1,
               translated_source |-> FALSE, translated_target |-> FALSE,
               pool_size |-> 0]
    /\ net = FreshNet
    /\ reqGrad = [netD_S |-> TRUE, netD_T |-> TRUE]
    /\ grads = NoGrads
    /\ optimizer_G = FreshOptimizer
    /\ optimizer_D = FreshOptimizer
    /\ lr_scheduler_G = [last_epoch |-> 0]
    /\ lr_scheduler_D = [last_epoch |-> 0]
    /\ fake_S_pool = <<>>
    /\ fake_T_pool = <<>>
    /\ nextEpoch = 0
    /\ epoch = -1
    /\ i = 0
    /\ fakes = NoFakes
    /\ losses = NoLosses
    /\ calls = <<>>
    /\ log = <<>>
    /\ checkpoint = NoCheckpoint
    /\ translated = {}
    /\ vpc = "new"
    /\ file \in SeqsUpTo(FileChars, MaxFileLen)
    /\ extension \in Extensions
    /\ root \in Roots
    /\ transform \in Transforms
    /\ samples = <<>>
    /\ item = NoItem

\* VOCImageFolder.__init__, lines 50-56
VOCInit ==
    /\ vpc = "new"
    /\ samples' = parse_data_file(file, extension, root)
    /\ vpc' = "ready"
    /\ UNCHANGED <<file, extension, root, transform, item, trainVars>>

\* VOCImageFolder.__getitem__, lines 58-68 (IndexError outside the list)
GetItem ==
    /\ vpc = "ready"
    /\ \E index \in 1..Len(samples) :
         LET path == samples[index]
             img == default_loader(path)
         IN  item' = [index |-> index,
                      img |-> IF transform # None
                              THEN [img EXCEPT !.transform = transform]
                              ELSE img,
                      path |-> path]
    /\ UNCHANGED <<vpc, file, extension, root, transform, samples, trainVars>>

NextVOC ==
    \/ VOCInit
    \/ GetItem

SpecVOC == InitVOC /\ [][NextVOC]_vars

\* ------------------------------------------------------------ properties
Range(q) == {q[k] : k \in 1..Len(q)}
Min(a, b) == IF a <= b THEN a ELSE b
Count(q, x) == Cardinality({k \in 1..Len(q) : q[k] = x})
Frozen == ~reqGrad.netD_S /\ ~reqGrad.netD_T
Trainable == reqGrad.netD_S /\ reqGrad.netD_T

\* the calls of one complete iteration of train, in the order of the code
IterationCalls ==
    <<"set_requires_grad(netD_S, False)", "set_requires_grad(netD_T, False)",
      "optimizer_G.zero_grad", "loss_G.backward", "optimizer_G.step",
      "set_requires_grad(netD_S, True)", "set_requires_grad(netD_T, True)",
      "optimizer_D.zero_grad",
      "fake_S_pool.query(fake_S)", "loss_D_S.backward",
      "fake_T_pool.query(fake_T)", "loss_D_T.backward",
      "optimizer_D.step">>

\* positions inside the body of the epoch loop of main
TrainPcs == {"iter", "forward", "freeze", "g_zero_grad", "g_loss",
             "g_backward", "g_step", "unfreeze", "d_zero_grad", "d_S", "d_T",
             "d_step", "meters"}
BodyPcs == TrainPcs \cup {"lr_step", "save"}
AfterLoopPcs == {"translate_source", "translate_target", "close", "done"}

\* C1: in every iteration of train, optimizer_G.step runs exactly once and
\* before optimizer_D.step, which runs exactly once; both discriminators
\* are frozen from before the generator backward pass until after
\* optimizer_G.step and trainable again before any discriminator backward
\* pass: a generator step only happens with both discriminators frozen (and
\* advances the generators only), a discriminator step only with both
\* trainable, and the generator loss never leaves a gradient in a
\* discriminator.
C1_Alternation ==
    /\ [](pc = "meters" =>
            /\ calls = IterationCalls
            /\ Count(calls, "optimizer_G.step") = 1
            /\ Count(calls, "optimizer_D.step") = 1)
    /\ []((Count(calls, "loss_G.backward") = 1 /\ pc \in {"g_step", "unfreeze"})
            => Frozen)
    /\ [](pc \in {"g_backward", "g_step"} => Frozen)
    /\ [](pc \in {"d_S", "d_T", "d_step"} => Trainable)
    /\ []("loss_G" \notin grads.D)
    /\ [][calls' = Append(calls, "optimizer_G.step") =>
            /\ Frozen /\ Frozen'
            /\ Count(calls, "optimizer_D.step") = 0
            /\ grads.G = {"loss_G"}
            /\ optimizer_G'.step = optimizer_G.step + 1
            /\ net'.netG_S2T = net.netG_S2T + 1
            /\ net'.netG_T2S = net.netG_T2S + 1
            /\ net'.netD_S = net.netD_S /\ net'.netD_T = net.netD_T]_vars
    /\ [][calls' = Append(calls, "optimizer_D.step") =>
            /\ Trainable /\ Trainable'
            /\ Count(calls, "optimizer_G.step") = 1
            /\ grads.D = {"loss_D_S", "loss_D_T"}
            /\ optimizer_D'.step = optimizer_D.step + 1
            /\ net'.netD_S = net.netD_S + 1
            /\ net'.netD_T = net.netD_T + 1
            /\ net'.netG_S2T = net.netG_S2T
            /\ net'.netG_T2S = net.netG_T2S]_vars

\* C1 witness: the second iteration of a later epoch has run to its end
C1_Witness ==
    /\ pc = "meters" /\ i = 1 /\ epoch > args.start_epoch
    /\ optimizer_G.step = optimizer_D.step /\ optimizer_G.step >= 4

\* C2: discriminators are trained on fakes from the image buffers,
\* generators on the current fakes.  Each iteration queries fake_S_pool
\* once with the current fake_S and fake_T_pool once with the current
\* fake_T; the result is the only fake input of the discriminator's loss;
\* a buffer only ever holds fakes of its own domain; the generator loss
\* uses exactly the two fakes just computed; the buffers are filled once
\* and keep their contents across the epochs of a run.
C2_Pools ==
    /\ \A x \in Range(fake_S_pool) : x.dom = "S"
    /\ \A x \in Range(fake_T_pool) : x.dom = "T"
    /\ Len(fake_S_pool) <= args.pool_size /\ Len(fake_T_pool) <= args.pool_size
    /\ pc = "meters" =>
          /\ Count(calls, "fake_S_pool.query(fake_S)") = 1
          /\ Count(calls, "fake_T_pool.query(fake_T)") = 1
    /\ pc \in {"d_T", "d_step", "meters"} =>
          /\ losses.D_S = {fakes.fake_S_}
          /\ fakes.fake_S_.dom = "S"
          /\ fakes.fake_S_.gen <= fakes.fake_S.gen
          /\ fakes.fake_S_ = fakes.fake_S \/ fakes.fake_S \in Range(fake_S_pool)
    /\ pc \in {"d_step", "meters"} =>
          /\ losses.D_T = {fakes.fake_T_}
          /\ fakes.fake_T_.dom = "T"
          /\ fakes.fake_T_.gen <= fakes.fake_T.gen
          /\ fakes.fake_T_ = fakes.fake_T \/ fakes.fake_T \in Range(fake_T_pool)
    /\ pc \in {"g_backward", "g_step"} =>
          losses.G = {[dom |-> "T", gen |-> net.netG_S2T],
                      [dom |-> "S", gen |-> net.netG_T2S]}
    /\ losses.G # {} => losses.G = {fakes.fake_T, fakes.fake_S}
    /\ pc = "forward" =>
          /\ Len(fake_S_pool) =
                Min(args.pool_size, (epoch - args.start_epoch) * ItersPerEpoch + i)
          /\ Len(fake_T_pool) =
                Min(args.pool_size, (epoch - args.start_epoch) * ItersPerEpoch + i)

\* C2 witness: in a later epoch both discriminators got an older fake out
\* of their buffers, made during an earlier epoch
C2_Witness ==
    /\ pc = "meters" /\ epoch > args.start_epoch
    /\ fakes.fake_S_.gen + i < fakes.fake_S.gen
    /\ fakes.fake_T_.gen + i < fakes.fake_T.gen
    /\ fakes.fake_S \in Range(fake_S_pool)

\* the last epoch whose body (train, scheduler steps, save) has completed
LastCompleted == IF pc \in BodyPcs THEN epoch - 1 ELSE epoch

\* C3: in phase 'train' the checkpoint is written once per epoch, after
\* train(e) has run all its iterations and both schedulers have stepped;
\* it holds the current state of the networks, optimizers and schedulers
\* and 'epoch' = e; so whenever this run has completed an epoch, the
\* 'epoch' of the latest checkpoint is the last completed epoch.
C3_Checkpoint ==
    /\ [][checkpoint' # checkpoint =>
            /\ args.phase = "train"
            /\ log = <<"train", "lr_scheduler_G.step", "lr_scheduler_D.step">>
            /\ i = ItersPerEpoch
            /\ checkpoint' = [exists |-> TRUE, net |-> net,
                              optimizer_G |-> optimizer_G,
                              optimizer_D |-> optimizer_D,
                              lr_scheduler_G |-> lr_scheduler_G,
                              lr_scheduler_D |-> lr_scheduler_D,
                              epoch |-> epoch]]_vars
    /\ []((pc \in BodyPcs \cup {"loop"} \cup AfterLoopPcs
           /\ args.phase = "train"
           /\ LastCompleted >= args.start_epoch)
            => (checkpoint.exists /\ checkpoint.epoch = LastCompleted))
    /\ []((pc \in BodyPcs \cup {"loop"} \cup AfterLoopPcs /\ args.resume
           /\ args.phase = "train")
            => checkpoint.epoch = LastCompleted \/ LastCompleted = -1)

\* C3 witness: a resumed run has just saved the checkpoint of its second
\* epoch or later
C3_Witness ==
    /\ pc = "loop" /\ args.resume /\ epoch >= 2
    /\ checkpoint.epoch = epoch
    /\ log = <<"train", "lr_scheduler_G.step", "lr_scheduler_D.step", "torch.save">>

\* C4: a train-phase run started at epoch 0 without --resume executes
\* exactly args.epochs training epochs
C4_EpochsTotal ==
    (pc \in AfterLoopPcs /\ args.phase = "train" /\ ~args.resume
     /\ args.start_epoch = 0)
        => epoch + 1 = args.epochs

\* C5: during every training epoch e the learning rate of both optimizers
\* is the initial one times 1 - max(0, e - epochs) / epochs_decay
C5_LrSchedule ==
    pc \in TrainPcs =>
        /\ SameLr(optimizer_G.lr, lr_decay_function(args, epoch))
        /\ SameLr(optimizer_D.lr, lr_decay_function(args, epoch))

\* C6: in phase 'test' main runs no training iteration, takes no optimizer
\* or scheduler step and writes no checkpoint; after the optional resume
\* nothing but the translation output changes, and the translations
\* written are exactly the requested ones, made with the loaded (or
\* initial) generator weights.
C6_TestOnly ==
    /\ [][(args.phase = "test" /\ pc \notin {"start", "resume", "done"}) =>
            /\ UNCHANGED <<net, optimizer_G, optimizer_D, lr_scheduler_G,
                           lr_scheduler_D, checkpoint, fake_S_pool,
                           fake_T_pool, grads, reqGrad, fakes, losses, calls,
                           log, epoch, nextEpoch, i>>
            /\ pc' \in AfterLoopPcs]_vars
    /\ []((args.phase = "test" /\ pc \notin {"start", "resume"}) =>
            /\ pc \in {"phase"} \cup AfterLoopPcs
            /\ calls = <<>> /\ log = <<>> /\ epoch = -1
            /\ optimizer_G.step = (IF args.resume THEN checkpoint.optimizer_G.step ELSE 0)
            /\ optimizer_D.step = (IF args.resume THEN checkpoint.optimizer_D.step ELSE 0)
            /\ net = (IF args.resume THEN checkpoint.net ELSE FreshNet))
    /\ []((args.phase = "test" /\ pc \in {"close", "done"}) =>
            translated =
              {[dataset |-> "source", net |-> "netG_S2T",
                gen |-> IF args.resume THEN checkpoint.net.netG_S2T ELSE 0] :
                 x \in {y \in {1} : args.translated_source}}
              \cup
              {[dataset |-> "target", net |-> "netG_T2S",
                gen |-> IF args.resume THEN checkpoint.net.netG_T2S ELSE 0] :
                 x \in {y \in {1} : args.translated_target}})

\* C6 witness: a test run resumed from a trained checkpoint has translated
\* both datasets and closed the logger
C6_Witness ==
    /\ args.phase = "test" /\ pc = "done" /\ args.resume
    /\ checkpoint.net.netG_S2T >= 2
    /\ Cardinality(translated) = 2

\* the number of lines of a file
NumLines(f) ==
    Cardinality({k \in 1..Len(f) : f[k] = "\n"})
    + (IF f # <<>> /\ f[Len(f)] # "\n" THEN 1 ELSE 0)

\* the k-th line of a file, without its line terminator
LineOf(f, k) ==
    LET nl == {p \in 1..Len(f) : f[p] = "\n"}
        nth(n) == IF n = 0 THEN 0
                  ELSE IF n > Cardinality(nl) THEN Len(f) + 1
                  ELSE CHOOSE p \in nl : Cardinality({q \in nl : q < p}) = n - 1
    IN  SubSeq(f, nth(k - 1) + 1, nth(k) - 1)

\* a line without its surrounding whitespace
Stripped(l) ==
    LET ink == {p \in 1..Len(l) : l[p] \notin Whitespace}
    IN  IF ink = {} THEN <<>>
        ELSE SubSeq(l, CHOOSE p \in ink : \A q \in ink : p <= q,
                       CHOOSE p \in ink : \A q \in ink : p >= q)

\* the sample the k-th line stands for
ExpectedSample(k) ==
    LET path == Stripped(LineOf(file, k))
                  \o (IF extension = None THEN <<>> ELSE extension)
    IN  IF path # <<>> /\ path[1] = "/" THEN path
        ELSE root
             \o (IF root = <<>> \/ root[Len(root)] = "/" THEN <<>> ELSE <<"/">>)
             \o <<"JPEGImages", "/">> \o path

====
